---------------------------- MODULE Spec2Model ----------------------------
(***************************************************************************)
(* Model of package valuepath (src/unnamed/part_000): the Path value with  *)
(* its slice-backed storage, and the FromString parser.                    *)
(*                                                                         *)
(* Strings are sequences of one-character strings; Go's 0-based offsets    *)
(* are kept (CharAt, Suffix and Slice translate to 1-based sequences).     *)
(*                                                                         *)
(* The source mixes two representations of a part (string in the Path      *)
(* methods, pathPart in FromString).  The model stores pathPart records    *)
(* everywhere; a part used as a string is its fieldOrKey text (PartText).  *)
(* The fast-path test of FromString, `!strings.IndexAny(subject, "[]")`,   *)
(* is read as its comment states it: the subject holds no square bracket.  *)
(***************************************************************************)
EXTENDS Integers, Sequences, FiniteSets, TLC

VARIABLES
    subject,    \* FromString / HasPrefix: the string argument
    pc,         \* position of the running call
    cursor,     \* FromString: cursor
    leftBracketPos, \* FromString: leftBracketPos
    parts,      \* FromString: parts accumulated so far; HasPrefix: p.parts
    ret,        \* FromString: the returned pair [path, err]
    iter,       \* number of scan-loop iterations taken so far
    mem,        \* backing arrays of the slices, by array number
    p,          \* the original Path: the slice header of p.parts
    q,          \* a Path returned by Copy / CopyAt (Nil when none)
    qFrom,      \* which operation produced q
    pMut,       \* whether an operation changed p since q was produced
    last        \* the last operation applied and what it returned

vars == <<subject, pc, cursor, leftBracketPos, parts, ret, iter,
          mem, p, q, qFrom, pMut, last>>

parseVars == <<subject, pc, cursor, leftBracketPos, parts, ret, iter>>
pathVars == <<mem, p, q, qFrom, pMut>>

---------------------------------------------------------------------------
(* Bounds *)

MaxSubjectLen == 4
MaxIter == 4
MaxPathLen == 3
MaxPrefixLen == 3
MaxPrefixParts == 2

---------------------------------------------------------------------------
(* Strings *)

Nil == "nil"
ErrInvalidPath == "invalid path"

Digits == {"0", "1", "2", "3", "4", "5", "6", "7", "8", "9"}

CharAt(s, i) == s[i + 1]
Suffix(s, from) == SubSeq(s, from + 1, Len(s))
Slice(s, from, to) == SubSeq(s, from + 1, to)

\* strings.IndexAny: 0-based offset of the first character of s that is in
\* chars, or -1
IndexAny(s, chars) ==
    IF \E i \in 1..Len(s) : s[i] \in chars
    THEN (CHOOSE i \in 1..Len(s) :
            /\ s[i] \in chars
            /\ \A j \in 1..(i - 1) : s[j] \notin chars) - 1
    ELSE -1

\* strings.Split(s, sep) for a one-character separator: always at least one
\* item; the empty string splits into one empty item
RECURSIVE Split(_, _)
Split(s, sep) ==
    LET i == IndexAny(s, {sep})
    IN  IF i < 0 THEN <<s>>
        ELSE <<Slice(s, 0, i)>> \o Split(Suffix(s, i + 1), sep)

\* strings.Join(items, sep)
RECURSIVE Join(_, _)
Join(items, sep) ==
    IF Len(items) = 0 THEN <<>>
    ELSE IF Len(items) = 1 THEN items[1]
    ELSE items[1] \o <<sep>> \o Join(Tail(items), sep)

DigitValue(c) ==
    CASE c = "0" -> 0 [] c = "1" -> 1 [] c = "2" -> 2 [] c = "3" -> 3
      [] c = "4" -> 4 [] c = "5" -> 5 [] c = "6" -> 6 [] c = "7" -> 7
      [] c = "8" -> 8 [] c = "9" -> 9

\* the errors of strconv and the limits of int (64 bits), in decimal digits
ErrSyntax == "invalid syntax"
ErrRange == "value out of range"

IntMaxDigits == <<"9", "2", "2", "3", "3", "7", "2", "0", "3", "6",
                  "8", "5", "4", "7", "7", "5", "8", "0", "7">>
IntMinDigits == <<"9", "2", "2", "3", "3", "7", "2", "0", "3", "6",
                  "8", "5", "4", "7", "7", "5", "8", "0", "8">>

\* digits without their leading zeros
RECURSIVE StripZeros(_)
StripZeros(d) ==
    IF Len(d) > 1 /\ d[1] = "0" THEN StripZeros(Tail(d)) ELSE d

\* a <= b, for two runs of digits of one length
RECURSIVE DigitsLeq(_, _)
DigitsLeq(a, b) ==
    IF a = <<>> THEN TRUE
    ELSE IF a[1] = b[1] THEN DigitsLeq(Tail(a), Tail(b))
    ELSE DigitValue(a[1]) < DigitValue(b[1])

RECURSIVE DecimalValue(_)
DecimalValue(d) ==
    IF Len(d) = 0 THEN 0
    ELSE 10 * DecimalValue(SubSeq(d, 1, Len(d) - 1)) + DigitValue(d[Len(d)])

\* An int of up to nine decimal digits is the integer.  A larger one, which
\* the integers of the checker cannot hold, is written as its digits, after
\* "-" when negative.
IntOf(negative, d) ==
    IF Len(d) <= 9
    THEN IF negative THEN 0 - DecimalValue(d) ELSE DecimalValue(d)
    ELSE IF negative THEN <<"-">> \o d ELSE d

\* strconv.Atoi: an optional sign and one or more digits, within int
Atoi(s) ==
    LET signed == Len(s) > 0 /\ s[1] \in {"+", "-"}
        negative == signed /\ s[1] = "-"
        body == IF signed THEN Tail(s) ELSE s
        d == StripZeros(body)
        limit == IF negative THEN IntMinDigits ELSE IntMaxDigits
    IN  IF body = <<>> \/ \E i \in 1..Len(body) : body[i] \notin Digits
        THEN [val |-> 0, err |-> ErrSyntax]
        ELSE IF Len(d) > Len(limit) \/ (Len(d) = Len(limit) /\ ~DigitsLeq(d, limit))
        THEN [val |-> IntOf(negative, limit), err |-> ErrRange]
        ELSE [val |-> IntOf(negative, d), err |-> Nil]

\* unicode simple case folding, on the letters the model uses
FoldChar(c) ==
    CASE c = "A" -> "a" [] c = "B" -> "b" [] c = "C" -> "c" [] OTHER -> c

\* strings.EqualFold
EqualFold(s, t) ==
    /\ Len(s) = Len(t)
    /\ \A i \in 1..Len(s) : FoldChar(s[i]) = FoldChar(t[i])

---------------------------------------------------------------------------
(* Parts *)

partTypeField == 0
partTypeElement == 1
partTypeKey == 2

FieldPart(name) ==
    [partType |-> partTypeField, index |-> 0, fieldOrKey |-> name]
ElementPart(idx) ==
    [partType |-> partTypeElement, index |-> idx, fieldOrKey |-> <<>>]
KeyPart(key) ==
    [partType |-> partTypeKey, index |-> 0, fieldOrKey |-> key]

\* the zero value of pathPart
ZeroPart == [partType |-> 0, index |-> 0, fieldOrKey |-> <<>>]

\* a part where the source uses it as a string
PartText(part) == part.fieldOrKey

PartTexts(ps) == [i \in 1..Len(ps) |-> PartText(ps[i])]

\* the nil slice of a fresh Path
NilSlice == [arr |-> 0, off |-> 0, len |-> 0, cap |-> 0]

\* a nil *Path
NilPath == [arr |-> -1, off |-> 0, len |-> 0, cap |-> 0]

\* Path.String: the parts joined by "."
String(ps) == Join(PartTexts(ps), ".")

---------------------------------------------------------------------------
(* FromString *)

\* the (path, error) pairs FromString returns; pathNil is a nil *Path
NoReturn == [pathNil |-> TRUE, path |-> <<>>, err |-> Nil]
ReturnPath(ps) == [pathNil |-> FALSE, path |-> ps, err |-> Nil]
ReturnInvalid == [pathNil |-> TRUE, path |-> <<>>, err |-> ErrInvalidPath]
ReturnInvalidWithParts(ps) ==
    [pathNil |-> FALSE, path |-> ps, err |-> ErrInvalidPath]

\* a failure that hands back the parts read so far
ScanErrorKeepingParts(ps) == ReturnInvalidWithParts(ps)

\* `return nil, ErrInvalidPath` inside the scan loop
ScanError(ps) == ReturnInvalid

\* the loop of findElementIndexWithClosingOffset, from its cursor on
RECURSIVE FindElementLoop(_, _, _)
FindElementLoop(sub, cur, idxStr) ==
    IF cur >= Len(sub)
    THEN [idx |-> -1, offset |-> -1, err |-> ErrInvalidPath]
    ELSE LET nextChar == CharAt(sub, cur)
         IN  IF nextChar \in Digits
             THEN FindElementLoop(sub, cur + 1, Append(idxStr, nextChar))
             ELSE IF nextChar = "]"
             THEN IF Atoi(idxStr).err # Nil
                  THEN [idx |-> -1, offset |-> -1, err |-> ErrInvalidPath]
                  ELSE [idx |-> Atoi(idxStr).val, offset |-> cur, err |-> Nil]
             ELSE [idx |-> -1, offset |-> -1, err |-> ErrInvalidPath]

\* findElementIndexWithClosingOffset(subject): sub starts with a digit
findElementIndexWithClosingOffset(sub) ==
    FindElementLoop(sub, 1, <<CharAt(sub, 0)>>)

\* a fast path that does not split the subject
FastPathPartsUnsplit(subj) == <<FieldPart(subj)>>

\* the fast path: no square bracket in the subject, one Field part per item
\* of the subject split on "."
FastPathParts(subj) ==
    LET fields == Split(subj, ".")
    IN  [i \in 1..Len(fields) |-> FieldPart(fields[i])]

HasNoBracket(subj) == IndexAny(subj, {"[", "]"}) < 0

\* the state of the scan loop, and one iteration of it
ScanState(c, lbp, ps, at, r) ==
    [cursor |-> c, leftBracketPos |-> lbp, parts |-> ps, pc |-> at, ret |-> r]

\* the offset IndexAny finds in subject[cursor:], and the character the
\* loop dispatches on: subject[idxSpecial]
idxSpecialAt(subj, c) == IndexAny(Suffix(subj, c), {"[", "."})

specialAt(subj, c) == CharAt(subj, idxSpecialAt(subj, c))

ScanIter(subj, c, lbp, ps) ==
    LET subjectLen == Len(subj)
        idxSpecial == idxSpecialAt(subj, c)
        failed == ScanState(c, lbp, ps, "err", ScanError(ps))
    IN  IF idxSpecial < 0
        THEN LET out == IF c < subjectLen
                        THEN Append(ps, FieldPart(Suffix(subj, c)))
                        ELSE ps
             IN  ScanState(c, lbp, out, "done", ReturnPath(out))
        ELSE
        LET special == specialAt(subj, c)
        IN  IF special = "["
            THEN IF lbp > 0 THEN failed
                 ELSE LET c1 == idxSpecial + 1
                      IN  IF c1 >= subjectLen THEN failed
                          ELSE
                          LET nextChar == CharAt(subj, c1)
                          IN  IF nextChar = "'"
                              THEN IF lbp < 0 \/ lbp > idxSpecial THEN failed
                                   ELSE ScanState(idxSpecial + 1, -1,
                                            Append(ps, KeyPart(Slice(subj, lbp, idxSpecial))),
                                            "scan", NoReturn)
                              ELSE IF nextChar \in Digits
                              THEN LET found == findElementIndexWithClosingOffset(Suffix(subj, c1))
                                   IN  IF found.err # Nil THEN failed
                                       ELSE ScanState(c1 + found.offset, lbp,
                                                Append(ps, ElementPart(found.idx)),
                                                "scan", NoReturn)
                              ELSE failed
            ELSE \* case '.' has an empty body, and no other case exists
                 ScanState(c, lbp, ps, "scan", NoReturn)

---------------------------------------------------------------------------
(* Inputs of the parser *)

Alphabet == {"A", ".", "[", "]", "'", "0"}

StringsUpTo(chars, n) == UNION {[1..k -> chars] : k \in 0..n}

\* "LastName"
DocLastName ==
    <<"L", "a", "s", "t", "N", "a", "m", "e">>
\* "Publisher.Name"
DocPublisherName ==
    <<"P", "u", "b", "l", "i", "s", "h", "e", "r", ".", "N", "a", "m",
    "e">>
\* "Publisher.Addresses[0].City"
DocAddressCity ==
    <<"P", "u", "b", "l", "i", "s", "h", "e", "r", ".", "A", "d", "d",
    "r", "e", "s", "s", "e", "s", "[", "0", "]", ".", "C", "i", "t", "y">>
\* "Books['Gone With the Wind']"
DocBooksKey ==
    <<"B", "o", "o", "k", "s", "[", "'", "G", "o", "n", "e", " ", "W",
    "i", "t", "h", " ", "t", "h", "e", " ", "W", "i", "n", "d", "'", "]">>

\* the strings the package documentation passes to FromString, and the
\* malformed ones the specification lists
\* an index of twenty digits, which does not fit int
BigIndexSubject == <<"A", "[">> \o [i \in 1..20 |-> "9"] \o <<"]">>

DocSubjects ==
    { DocLastName, DocPublisherName, DocAddressCity, DocBooksKey,
      <<"A", "[", "1">>, <<"A", "[", "x", "]">>, <<"A", "[", "'", "b">>,
      <<"A", "[", "[", "'", "0", "'", "]", "]">>,
      <<"A", "[", "1", "2", "]">>, <<"A", "[", "0", "]", ".", "B">>,
      BigIndexSubject }

Subjects == StringsUpTo(Alphabet, MaxSubjectLen) \cup DocSubjects

---------------------------------------------------------------------------
(* The parser as a state machine: one call of FromString *)

NoLast == [op |-> "none", ret |-> <<>>]

PathIdle ==
    /\ mem = <<>>
    /\ p = NilPath
    /\ q = NilPath
    /\ qFrom = "none"
    /\ pMut = FALSE

InitParse ==
    /\ subject \in Subjects
    /\ pc = "call"
    /\ cursor = 0
    /\ leftBracketPos = -1
    /\ parts = <<>>
    /\ ret = NoReturn
    /\ iter = 0
    /\ last = NoLast
    /\ PathIdle

\* FromString up to the scan loop: the fast path returns, the rest scans
FromStringEntry ==
    /\ pc = "call"
    /\ IF HasNoBracket(subject)
       THEN /\ parts' = FastPathParts(subject)
            /\ ret' = ReturnPath(parts')
            /\ pc' = "done"
       ELSE /\ parts' = <<>>
            /\ ret' = NoReturn
            /\ pc' = "scan"
    /\ cursor' = 0
    /\ leftBracketPos' = -1
    /\ UNCHANGED <<subject, iter, last>>
    /\ UNCHANGED pathVars

\* one iteration of the scan loop
ScanStep ==
    /\ pc = "scan"
    /\ iter < MaxIter
    /\ LET next == ScanIter(subject, cursor, leftBracketPos, parts)
       IN  /\ cursor' = next.cursor
           /\ leftBracketPos' = next.leftBracketPos
           /\ parts' = next.parts
           /\ pc' = next.pc
           /\ ret' = next.ret
    /\ iter' = iter + 1
    /\ UNCHANGED <<subject, last>>
    /\ UNCHANGED pathVars

\* Path.String on the returned Path
StringOfResult ==
    /\ pc = "done"
    /\ last.op = "none"
    /\ last' = [op |-> "String", ret |-> String(ret.path)]
    /\ UNCHANGED parseVars
    /\ UNCHANGED pathVars

NextParse == FromStringEntry \/ ScanStep \/ StringOfResult

SpecParse == InitParse /\ [][NextParse]_vars


---------------------------------------------------------------------------
(* Path: p.parts is a Go slice, a window [off, off+len) with capacity cap  *)
(* on the backing array mem[arr]                                           *)

\* the segments a slice shows
View(m, sl) == [i \in 1..sl.len |-> m[sl.arr][sl.off + i]]

\* the capacity append grows a full slice of these parts to
GrowCap(cap) == IF cap = 0 THEN 1 ELSE 2 * cap

\* append that leaves the old elements behind when it takes a new array
AppendSliceNoCopy(m, sl, x) ==
    IF sl.len < sl.cap
    THEN [mem |-> [m EXCEPT ![sl.arr][sl.off + sl.len + 1] = x],
          sl |-> [sl EXCEPT !.len = sl.len + 1]]
    ELSE LET newcap == GrowCap(sl.cap)
             fresh == [i \in 1..newcap |->
                          IF i = sl.len + 1 THEN x ELSE ZeroPart]
         IN  [mem |-> Append(m, fresh),
              sl |-> [arr |-> Len(m) + 1, off |-> 0,
                      len |-> sl.len + 1, cap |-> newcap]]

\* append(sl, x): in place when the capacity allows, else into a new array
AppendSlice(m, sl, x) ==
    IF sl.len < sl.cap
    THEN [mem |-> [m EXCEPT ![sl.arr][sl.off + sl.len + 1] = x],
          sl |-> [sl EXCEPT !.len = sl.len + 1]]
    ELSE LET newcap == GrowCap(sl.cap)
             fresh == [i \in 1..newcap |->
                          IF i <= sl.len THEN m[sl.arr][sl.off + i]
                          ELSE IF i = sl.len + 1 THEN x
                          ELSE ZeroPart]
         IN  [mem |-> Append(m, fresh),
              sl |-> [arr |-> Len(m) + 1, off |-> 0,
                      len |-> sl.len + 1, cap |-> newcap]]

\* sl[:len-1], sl[1:] and sl[0:index+1]
SliceDropLast(sl) == [sl EXCEPT !.len = sl.len - 1]
SliceDropFirst(sl) ==
    [sl EXCEPT !.off = sl.off + 1, !.len = sl.len - 1, !.cap = sl.cap - 1]
SliceUpTo(sl, index) == [sl EXCEPT !.len = index + 1]

\* Path.Copy: a new Path holding the same slice
Copy(sl) == sl

\* Path.CopyAt: nil out of range, else a new Path holding p.parts[0:index+1]
CopyAt(sl, index) ==
    IF index < 0 \/ sl.len = 0 \/ index > sl.len - 1 THEN NilPath
    ELSE SliceUpTo(sl, index)

\* Path.Size and Path.Empty
Size(sl) == sl.len
Empty(sl) == sl.len = 0

\* At counting the index from the back
AtFromBack(m, sl, index) ==
    IF index < 0 \/ sl.len = 0 \/ index > sl.len - 1 THEN <<>>
    ELSE PartText(m[sl.arr][sl.off + sl.len - index])

\* Path.At: the empty string out of range, else p.parts[index]
At(m, sl, index) ==
    IF index < 0 \/ sl.len = 0 \/ index > sl.len - 1 THEN <<>>
    ELSE PartText(m[sl.arr][sl.off + index + 1])

\* Path.Front and Path.Back
Front(m, sl) ==
    IF sl.len = 0 THEN <<>> ELSE PartText(m[sl.arr][sl.off + 1])

Back(m, sl) ==
    IF sl.len = 0 THEN <<>> ELSE PartText(m[sl.arr][sl.off + sl.len])

---------------------------------------------------------------------------
(* The Path as a state machine: p, and a copy q of it *)

\* Memory is kept up to what no operation can observe: array numbers, the
\* arrays and the cells before a slice's offset that no Path refers to any
\* more (the garbage collector's work), and the content of cells beyond the
\* length of every slice on the array (no operation reslices past len, so
\* such a cell is written by append before it is ever read).
Live(sl) == sl.arr > 0 /\ sl.cap > 0

MinOff(users) == CHOOSE o \in {u.off : u \in users} : \A u \in users : o <= u.off

Cells(m, a, users) ==
    LET base == MinOff(users)
    IN  [i \in 1..(Len(m[a]) - base) |->
            IF \E u \in users : u.off < base + i /\ base + i <= u.off + u.len
            THEN m[a][base + i]
            ELSE ZeroPart]

Rebase(sl, base, a) == [sl EXCEPT !.arr = a, !.off = sl.off - base]

Collected(m, sp, sq) ==
    IF Live(sp) /\ Live(sq) /\ sp.arr = sq.arr
    THEN [mem |-> <<Cells(m, sp.arr, {sp, sq})>>,
          p |-> Rebase(sp, MinOff({sp, sq}), 1),
          q |-> Rebase(sq, MinOff({sp, sq}), 1)]
    ELSE LET pm == IF Live(sp) THEN <<Cells(m, sp.arr, {sp})>> ELSE <<>>
             qm == IF Live(sq) THEN <<Cells(m, sq.arr, {sq})>> ELSE <<>>
         IN  [mem |-> pm \o qm,
              p |-> IF Live(sp) THEN Rebase(sp, sp.off, 1) ELSE NilSlice,
              q |-> IF Live(sq) THEN Rebase(sq, sq.off, Len(pm) + 1)
                    ELSE IF sq = NilPath THEN NilPath ELSE NilSlice]

\* the state of the two Paths after an operation left them as m, sp, sq
Store(m, sp, sq) ==
    LET c == Collected(m, sp, sq)
    IN  /\ mem' = c.mem
        /\ p' = c.p
        /\ q' = c.q

PushNames == {<<"X">>, <<"Y">>}

ParseIdle ==
    /\ subject = <<>>
    /\ pc = "idle"
    /\ cursor = 0
    /\ leftBracketPos = -1
    /\ parts = <<>>
    /\ ret = NoReturn
    /\ iter = 0

InitPath ==
    /\ ParseIdle
    /\ mem = <<>>
    /\ p = NilSlice
    /\ q = NilPath
    /\ qFrom = "none"
    /\ pMut = FALSE
    /\ last = NoLast

\* p.PushBack(part)
PushBackP(name) ==
    /\ p.len < MaxPathLen
    /\ LET r == AppendSlice(mem, p, FieldPart(name))
       IN  Store(r.mem, r.sl, q)
    /\ last' = [op |-> "PushBack", ret |-> <<>>]
    /\ pMut' = TRUE
    /\ UNCHANGED qFrom
    /\ UNCHANGED parseVars

\* q.PushBack(part)
PushBackQ(name) ==
    /\ q # NilPath
    /\ q.len < MaxPathLen
    /\ LET r == AppendSlice(mem, q, FieldPart(name))
       IN  Store(r.mem, p, r.sl)
    /\ last' = [op |-> "PushBack", ret |-> <<>>]
    /\ UNCHANGED <<qFrom, pMut>>
    /\ UNCHANGED parseVars

\* Pop with the slice cut at the wrong end
PopOfDroppingFirst(m, sl) ==
    IF sl.len > 0
    THEN [part |-> PartText(m[sl.arr][sl.off + sl.len]), sl |-> SliceDropFirst(sl)]
    ELSE [part |-> <<>>, sl |-> sl]

\* what Pop and PopFront return and leave, on a slice
PopOf(m, sl) ==
    IF sl.len > 0
    THEN [part |-> PartText(m[sl.arr][sl.off + sl.len]), sl |-> SliceDropLast(sl)]
    ELSE [part |-> <<>>, sl |-> sl]

\* PopFront returning the segment at the other end
PopFrontOfBack(m, sl) ==
    IF sl.len > 0
    THEN [part |-> PartText(m[sl.arr][sl.off + sl.len]), sl |-> SliceDropFirst(sl)]
    ELSE [part |-> <<>>, sl |-> sl]

PopFrontOf(m, sl) ==
    IF sl.len > 0
    THEN [part |-> PartText(m[sl.arr][sl.off + 1]), sl |-> SliceDropFirst(sl)]
    ELSE [part |-> <<>>, sl |-> sl]

\* p.Pop()
PopP ==
    /\ Store(mem, PopOf(mem, p).sl, q)
    /\ last' = [op |-> "Pop", ret |-> PopOf(mem, p).part]
    /\ pMut' = TRUE
    /\ UNCHANGED qFrom
    /\ UNCHANGED parseVars

\* q.Pop()
PopQ ==
    /\ q # NilPath
    /\ Store(mem, p, PopOf(mem, q).sl)
    /\ last' = [op |-> "Pop", ret |-> PopOf(mem, q).part]
    /\ UNCHANGED <<qFrom, pMut>>
    /\ UNCHANGED parseVars

\* p.PopFront()
PopFrontP ==
    /\ Store(mem, PopFrontOf(mem, p).sl, q)
    /\ last' = [op |-> "PopFront", ret |-> PopFrontOf(mem, p).part]
    /\ pMut' = TRUE
    /\ UNCHANGED qFrom
    /\ UNCHANGED parseVars

\* q.PopFront()
PopFrontQ ==
    /\ q # NilPath
    /\ Store(mem, p, PopFrontOf(mem, q).sl)
    /\ last' = [op |-> "PopFront", ret |-> PopFrontOf(mem, q).part]
    /\ UNCHANGED <<qFrom, pMut>>
    /\ UNCHANGED parseVars

\* q := p.Copy()
DoCopy ==
    /\ Store(mem, p, Copy(p))
    /\ qFrom' = "Copy"
    /\ pMut' = FALSE
    /\ last' = [op |-> "Copy", ret |-> <<>>]
    /\ UNCHANGED parseVars

\* q := p.CopyAt(index)
DoCopyAt(index) ==
    /\ Store(mem, p, CopyAt(p, index))
    /\ qFrom' = "CopyAt"
    /\ pMut' = FALSE
    /\ last' = [op |-> "CopyAt", ret |-> <<>>]
    /\ UNCHANGED parseVars

\* p.At(index), p.Front() and p.Back()
DoAt(index) ==
    /\ last' = [op |-> "At", ret |-> At(mem, p, index)]
    /\ UNCHANGED parseVars
    /\ UNCHANGED pathVars

DoFront ==
    /\ last' = [op |-> "Front", ret |-> Front(mem, p)]
    /\ UNCHANGED parseVars
    /\ UNCHANGED pathVars

DoBack ==
    /\ last' = [op |-> "Back", ret |-> Back(mem, p)]
    /\ UNCHANGED parseVars
    /\ UNCHANGED pathVars

NextPath ==
    \/ \E name \in PushNames : PushBackP(name)
    \/ \E name \in PushNames : PushBackQ(name)
    \/ PopP
    \/ PopQ
    \/ PopFrontP
    \/ PopFrontQ
    \/ DoCopy
    \/ \E index \in -1..MaxPathLen : DoCopyAt(index)

SpecPath == InitPath /\ [][NextPath]_vars

---------------------------------------------------------------------------
(* The read-only operations, applied to Paths of bounded content *)

\* the Path left by PushBack of each of names in turn, on an empty Path
RECURSIVE Pushed(_)
Pushed(names) ==
    IF names = <<>> THEN [mem |-> <<>>, p |-> NilSlice, q |-> NilPath]
    ELSE LET prev == Pushed(SubSeq(names, 1, Len(names) - 1))
             r == AppendSlice(prev.mem, prev.p, FieldPart(names[Len(names)]))
         IN  Collected(r.mem, r.sl, NilPath)

\* and then by n calls of PopFront
RECURSIVE Fronted(_, _)
Fronted(names, n) ==
    IF n = 0 THEN Pushed(names)
    ELSE LET prev == Fronted(names, n - 1)
         IN  Collected(prev.mem, PopFrontOf(prev.mem, prev.p).sl, NilPath)

ReadNames == UNION {[1..k -> PushNames] : k \in 0..MaxPathLen}

InitRead ==
    /\ ParseIdle
    /\ \E names \in ReadNames : \E n \in 0..Len(names) :
          /\ mem = Fronted(names, n).mem
          /\ p = Fronted(names, n).p
    /\ q = NilPath
    /\ qFrom = "none"
    /\ pMut = FALSE
    /\ last = NoLast

NextRead ==
    \/ \E index \in -1..MaxPathLen : DoAt(index)
    \/ DoFront
    \/ DoBack
    \/ \E index \in -1..MaxPathLen : DoCopyAt(index)

SpecRead == InitRead /\ [][NextRead]_vars


---------------------------------------------------------------------------
(* HasPrefix and HasPrefixFold *)

\* the loop `for i, s := range subjectSplit` of HasPrefixFold, from item i
RECURSIVE PrefixLoopFold(_, _, _)
PrefixLoopFold(ps, items, i) ==
    IF i > Len(items) THEN TRUE
    ELSE IF ~EqualFold(PartText(ps[i]), items[i]) THEN FALSE
    ELSE PrefixLoopFold(ps, items, i + 1)

\* Path.HasPrefixFold
HasPrefixFold(ps, subj) ==
    LET subjectSplit == Split(subj, ".")
    IN  IF Len(subjectSplit) > Len(ps) THEN FALSE
        ELSE PrefixLoopFold(ps, subjectSplit, 1)

\* the loop `for i, s := range subjectSplit` of HasPrefix, from item i
RECURSIVE PrefixLoop(_, _, _)
PrefixLoop(ps, items, i) ==
    IF i > Len(items) THEN TRUE
    ELSE IF PartText(ps[i]) # items[i] THEN FALSE
    ELSE PrefixLoop(ps, items, i + 1)

\* a HasPrefix that compares as HasPrefixFold does
HasPrefixIgnoringCase(ps, subj) == HasPrefixFold(ps, subj)

\* Path.HasPrefix
HasPrefix(ps, subj) ==
    LET subjectSplit == Split(subj, ".")
    IN  IF Len(subjectSplit) > Len(ps) THEN FALSE
        ELSE PrefixLoop(ps, subjectSplit, 1)

\* the names of the parts of the Paths asked, and the subjects asked with
PrefixNames == {<<>>, <<"A">>, <<"a">>, <<"B">>, <<"A", "b">>}
PrefixAlphabet == {"A", "a", "B", "."}

PrefixPaths ==
    UNION {[1..n -> {FieldPart(name) : name \in PrefixNames}] : n \in 0..MaxPrefixParts}

PrefixSubjects ==
    StringsUpTo(PrefixAlphabet, MaxPrefixLen)
        \cup { <<"A", ".", "B", ".", "C">>, <<"A", ".", "C">> }

InitPrefix ==
    /\ subject \in PrefixSubjects
    /\ parts \in PrefixPaths
    /\ pc = "prefix"
    /\ cursor = 0
    /\ leftBracketPos = -1
    /\ ret = NoReturn
    /\ iter = 0
    /\ last = NoLast
    /\ PathIdle

\* p.HasPrefix(subject)
DoHasPrefix ==
    /\ pc = "prefix"
    /\ last.op = "none"
    /\ last' = [op |-> "HasPrefix", ret |-> HasPrefix(parts, subject)]
    /\ UNCHANGED parseVars
    /\ UNCHANGED pathVars

\* p.HasPrefixFold(subject)
DoHasPrefixFold ==
    /\ pc = "prefix"
    /\ last.op = "none"
    /\ last' = [op |-> "HasPrefixFold", ret |-> HasPrefixFold(parts, subject)]
    /\ UNCHANGED parseVars
    /\ UNCHANGED pathVars

NextPrefix == DoHasPrefix \/ DoHasPrefixFold

SpecPrefix == InitPrefix /\ [][NextPrefix]_vars


---------------------------------------------------------------------------
(* The documented notation, to state what a parse is meant to yield:       *)
(*   path := segment ("." segment)*     segment := identifier accessor*    *)
(*   accessor := "[" (index | quotedKey) "]"                               *)
(* Grammar(s) is [ok, parts]: whether s is in the notation, and the parts  *)
(* it denotes.                                                             *)

IdentChar(c) == c \notin {".", "[", "]", "'"}

GrammarInvalid == [ok |-> FALSE, parts |-> <<>>]

\* the offset of the first character at or after offset from that is not a
\* digit (the length of s if none)
RECURSIVE DigitsEnd(_, _)
DigitsEnd(s, from) ==
    IF from < Len(s) /\ CharAt(s, from) \in Digits THEN DigitsEnd(s, from + 1)
    ELSE from

\* the offset of the first "'" at or after offset from (the length of s if
\* none)
RECURSIVE QuoteEnd(_, _)
QuoteEnd(s, from) ==
    IF from < Len(s) /\ CharAt(s, from) # "'" THEN QuoteEnd(s, from + 1)
    ELSE from

\* i: offset of the next character; buf: the identifier being read; mode:
\* "start" (an identifier must begin), "ident" (inside an identifier) or
\* "after" (an accessor was just closed)
RECURSIVE GrammarScan(_, _, _, _, _)
GrammarScan(s, i, buf, mode, out) ==
    IF i >= Len(s)
    THEN IF mode = "ident" THEN [ok |-> TRUE, parts |-> Append(out, FieldPart(buf))]
         ELSE IF mode = "after" \/ Len(s) = 0 THEN [ok |-> TRUE, parts |-> out]
         ELSE GrammarInvalid
    ELSE
    LET c == CharAt(s, i)
        emitted == IF mode = "ident" THEN Append(out, FieldPart(buf)) ELSE out
    IN  IF c = "."
        THEN IF mode = "start" THEN GrammarInvalid
             ELSE GrammarScan(s, i + 1, <<>>, "start", emitted)
        ELSE IF c = "["
        THEN IF mode = "start" \/ i + 1 >= Len(s) THEN GrammarInvalid
             ELSE IF CharAt(s, i + 1) \in Digits
             THEN LET e == DigitsEnd(s, i + 1)
                  IN  IF e < Len(s) /\ CharAt(s, e) = "]"
                      THEN GrammarScan(s, e + 1, <<>>, "after",
                               Append(emitted, ElementPart(Atoi(Slice(s, i + 1, e)).val)))
                      ELSE GrammarInvalid
             ELSE IF CharAt(s, i + 1) = "'"
             THEN LET e == QuoteEnd(s, i + 2)
                  IN  IF e + 1 < Len(s) /\ CharAt(s, e + 1) = "]"
                      THEN GrammarScan(s, e + 2, <<>>, "after",
                               Append(emitted, KeyPart(Slice(s, i + 2, e))))
                      ELSE GrammarInvalid
             ELSE GrammarInvalid
        ELSE IF IdentChar(c) /\ mode # "after"
        THEN GrammarScan(s, i + 1, Append(buf, c), "ident", out)
        ELSE GrammarInvalid

Grammar(s) == GrammarScan(s, 0, <<>>, "start", <<>>)

\* the scan loop is at an iteration that returns nothing and changes
\* nothing: every later iteration is the same one, and FromString never
\* returns
Stuck ==
    /\ pc = "scan"
    /\ ScanIter(subject, cursor, leftBracketPos, parts)
           = ScanState(cursor, leftBracketPos, parts, "scan", NoReturn)

Returned == pc \in {"done", "err"}

\* the items between the dots of s, read character by character
RECURSIVE Identifiers(_)
Identifiers(s) ==
    IF Len(s) = 0 THEN << <<>> >>
    ELSE LET before == Identifiers(SubSeq(s, 1, Len(s) - 1))
             c == s[Len(s)]
         IN  IF c = "." THEN Append(before, <<>>)
             ELSE [before EXCEPT ![Len(before)] = Append(@, c)]

FieldsOf(names) == [i \in 1..Len(names) |-> FieldPart(names[i])]

\* one or more non-empty identifiers joined by single dots
ValidSimpleDotted(s) ==
    /\ \A i \in 1..Len(s) : IdentChar(s[i]) \/ s[i] = "."
    /\ \A i \in 1..Len(Identifiers(s)) : Identifiers(s)[i] # <<>>

\* a "." with no identifier character immediately before it or after it
DanglingDot(s) ==
    \E i \in 1..Len(s) :
        /\ s[i] = "."
        /\ \/ i = 1
           \/ i = Len(s)
           \/ ~IdentChar(s[i - 1])
           \/ ~IdentChar(s[i + 1])

\* the "[" at offset i opens an accessor that is closed as the notation asks
AccessorClosedAt(s, i) ==
    /\ i + 1 < Len(s)
    /\ \/ /\ CharAt(s, i + 1) \in Digits
          /\ DigitsEnd(s, i + 1) < Len(s)
          /\ CharAt(s, DigitsEnd(s, i + 1)) = "]"
       \/ /\ CharAt(s, i + 1) = "'"
          /\ QuoteEnd(s, i + 2) + 1 < Len(s)
          /\ CharAt(s, QuoteEnd(s, i + 2) + 1) = "]"

\* s holds, outside any quoted key, a "[" whose accessor is malformed
MalformedAccessor(s) ==
    \E i \in 0..(Len(s) - 1) :
        /\ CharAt(s, i) = "["
        /\ \A j \in 0..(i - 1) : CharAt(s, j) # "'"
        /\ ~AccessorClosedAt(s, i)

\* s is in the notation and uses an accessor
AccessorSubject(s) == Grammar(s).ok /\ \E i \in 1..Len(s) : s[i] = "["

\* s is an identifier followed by one single-quoted key accessor
KeySubject(s) ==
    /\ Grammar(s).ok
    /\ Len(Grammar(s).parts) = 2
    /\ Grammar(s).parts[1].partType = partTypeField
    /\ Grammar(s).parts[2].partType = partTypeKey

---------------------------------------------------------------------------
(* Claims *)

\* an operation on the copy q
QStep == (\E name \in PushNames : PushBackQ(name)) \/ PopQ \/ PopFrontQ

\* C1: for a non-empty Path p and 0 <= i <= size(p)-1, CopyAt(i) returns a
\* Path of size i+1 holding p's segments 0..i in order, and no PushBack, Pop
\* or PopFront applied to that copy changes p's size or any segment of p.
C1_CopyAtIndependent ==
    [][ /\ \A i \in 0..(p.len - 1) :
              DoCopyAt(i) =>
                  /\ q' # NilPath
                  /\ Size(q') = i + 1
                  /\ View(mem', q') = SubSeq(View(mem, p), 1, i + 1)
        /\ (qFrom = "CopyAt" /\ q # NilPath /\ ~pMut /\ QStep) =>
              /\ Size(p') = Size(p)
              /\ View(mem', p') = View(mem, p) ]_vars

\* C2: Copy returns a Path with the same segments in the same order, and
\* afterwards every PushBack, Pop and PopFront on either Path changes that
\* Path as the operation alone would and leaves the other Path's segments
\* as they were.
C2_CopyIndependent ==
    [][ /\ DoCopy => /\ View(mem', q') = View(mem, p)
                     /\ View(mem', p') = View(mem, p)
        /\ qFrom = "Copy" =>
              /\ \A name \in PushNames :
                    /\ PushBackQ(name) =>
                          /\ View(mem', q') = Append(View(mem, q), FieldPart(name))
                          /\ View(mem', p') = View(mem, p)
                    /\ PushBackP(name) =>
                          /\ View(mem', p') = Append(View(mem, p), FieldPart(name))
                          /\ View(mem', q') = View(mem, q)
              /\ PopQ => /\ View(mem', q') = SubSeq(View(mem, q), 1, q.len - 1)
                         /\ View(mem', p') = View(mem, p)
              /\ PopP => /\ View(mem', p') = SubSeq(View(mem, p), 1, p.len - 1)
                         /\ View(mem', q') = View(mem, q)
              /\ PopFrontQ => /\ View(mem', q') = SubSeq(View(mem, q), 2, q.len)
                              /\ View(mem', p') = View(mem, p)
              /\ PopFrontP => /\ View(mem', p') = SubSeq(View(mem, p), 2, p.len)
                              /\ View(mem', q') = View(mem, q) ]_vars

\* C3: a subject of the notation that uses accessors parses, without error
\* and without the scan looping, to one Field per identifier followed by
\* one Element or Key per accessor, in order;
\* "Publisher.Addresses[0].City" parses to
\* [Field(Publisher), Field(Addresses), Element(0), Field(City)].
C3_AccessorParts ==
    /\ AccessorSubject(subject) =>
          /\ ~Stuck
          /\ pc # "err"
          /\ pc = "done" => ret = ReturnPath(Grammar(subject).parts)
    /\ (subject = DocAddressCity /\ pc = "done") =>
          ret.path = << FieldPart(<<"P", "u", "b", "l", "i", "s", "h", "e", "r">>),
                        FieldPart(<<"A", "d", "d", "r", "e", "s", "s", "e", "s">>),
                        ElementPart(0),
                        FieldPart(<<"C", "i", "t", "y">>) >>

\* C4: an identifier followed by a single-quoted key accessor parses, with
\* no ErrInvalidPath, to Field(identifier), Key(text between the quotes);
\* "Books['Gone With the Wind']" to [Field(Books), Key(Gone With the Wind)].
C4_QuotedKey ==
    /\ KeySubject(subject) =>
          /\ ~Stuck
          /\ pc # "err"
          /\ pc = "done" => ret = ReturnPath(Grammar(subject).parts)
    /\ (subject = DocBooksKey /\ Returned) =>
          /\ ret.err = Nil
          /\ ret.path = << FieldPart(<<"B", "o", "o", "k", "s">>),
                           KeyPart(<<"G", "o", "n", "e", " ", "W", "i", "t", "h",
                                     " ", "t", "h", "e", " ", "W", "i", "n", "d">>) >>

\* C5: FromString("") returns, with no error, a Path of zero segments.
C5_EmptySubject ==
    (subject = <<>> /\ pc # "call") =>
        /\ pc = "done"
        /\ ret.err = Nil
        /\ ~ret.pathNil
        /\ Len(ret.path) = 0

\* C6: a bracket-free subject with a "." that has no identifier character
\* immediately before or after it fails with ErrInvalidPath, and no
\* bracket-free subject yields a Field part with an empty name.
C6_DanglingDot ==
    /\ (HasNoBracket(subject) /\ DanglingDot(subject) /\ pc # "call") =>
          /\ pc = "err"
          /\ ret = ReturnInvalid
    /\ (HasNoBracket(subject) /\ pc = "done") =>
          \A i \in 1..Len(ret.path) :
              ret.path[i].partType = partTypeField => ret.path[i].fieldOrKey # <<>>

\* C7: a subject with a malformed bracket accessor (unterminated, opened by
\* a character that is neither a digit nor a quote, holding an unterminated
\* quoted key, or holding another "[") fails with ErrInvalidPath: the parse
\* neither returns a Path nor loops.
C7_MalformedAccessor ==
    MalformedAccessor(subject) =>
        /\ pc # "done"
        /\ ~Stuck
        /\ pc = "err" => ret = ReturnInvalid

\* C8: a bracket-free subject of one or more non-empty identifiers joined by
\* single dots parses, with no error, to one Field part per identifier in
\* order, and String of the result is the subject.
C8_SimpleRoundTrip ==
    ValidSimpleDotted(subject) =>
        /\ pc \notin {"scan", "err"}
        /\ pc = "done" => ret = ReturnPath(FieldsOf(Identifiers(subject)))
        /\ last.op = "String" => last.ret = subject

C8_Witness ==
    /\ ValidSimpleDotted(subject)
    /\ pc = "done"
    /\ Len(ret.path) = 2
    /\ last.op = "String"

\* C9: FromString returns either a Path with no error or ErrInvalidPath with
\* no Path (nil), never an error together with the parts read so far.
C9_AllOrNothing ==
    /\ pc = "done" => /\ ret.err = Nil
                      /\ ~ret.pathNil
    /\ pc = "err" => /\ ret.err = ErrInvalidPath
                     /\ ret.pathNil
                     /\ ret.path = <<>>
    /\ ~Returned => ret = NoReturn

C9_Witness ==
    /\ subject = <<"A", "[", "1">>
    /\ pc = "err"
    /\ iter = 1
    /\ ret = ReturnInvalid

PathAB == <<FieldPart(<<"A">>), FieldPart(<<"B">>)>>

\* C10: HasPrefix(subject) is true exactly when the "."-split of subject has
\* no more items than the Path has parts and each item equals the text of
\* the part at its position; HasPrefixFold is the same up to case.  For the
\* Path of "A.B": HasPrefix("a") is false and HasPrefixFold("a") true, both
\* are true for "A" and "A.B" and false for "A.B.C", "B" and "A.C".
\* HasPrefix implies HasPrefixFold.
C10_HasPrefix ==
    LET items == Identifiers(subject)
        fits == Len(items) <= Len(parts)
        same == fits /\ \A i \in 1..Len(items) : PartText(parts[i]) = items[i]
        sameFold == fits /\ \A i \in 1..Len(items) : EqualFold(PartText(parts[i]), items[i])
        both == last.op \in {"HasPrefix", "HasPrefixFold"}
    IN  /\ last.op = "HasPrefix" => last.ret = same
        /\ last.op = "HasPrefixFold" => last.ret = sameFold
        /\ pc = "prefix" => (HasPrefix(parts, subject) => HasPrefixFold(parts, subject))
        /\ (parts = PathAB /\ both) =>
              /\ subject = <<"a">> => last.ret = (last.op = "HasPrefixFold")
              /\ subject \in {<<"A">>, <<"A", ".", "B">>} => last.ret = TRUE
              /\ subject \in {<<"A", ".", "B", ".", "C">>, <<"B">>, <<"A", ".", "C">>}
                    => last.ret = FALSE

C10_Witness ==
    /\ parts = PathAB
    /\ subject = <<"a">>
    /\ last.op = "HasPrefixFold"
    /\ last.ret = TRUE

\* C11: Pop and PopFront on an empty Path return the zero value and leave
\* the Path empty; on a non-empty Path, Pop returns the last segment and
\* PopFront the first, the size decreases by exactly one and the remaining
\* segments keep their order.
C11_PopAndPopFront ==
    [][ /\ (last'.op = "Pop" /\ PopP) =>
              IF Size(p) = 0
              THEN last'.ret = <<>> /\ Size(p') = 0
              ELSE /\ last'.ret = PartText(View(mem, p)[Size(p)])
                   /\ Size(p') = Size(p) - 1
                   /\ View(mem', p') = SubSeq(View(mem, p), 1, Size(p) - 1)
        /\ (last'.op = "PopFront" /\ PopFrontP) =>
              IF Size(p) = 0
              THEN last'.ret = <<>> /\ Size(p') = 0
              ELSE /\ last'.ret = PartText(View(mem, p)[1])
                   /\ Size(p') = Size(p) - 1
                   /\ View(mem', p') = SubSeq(View(mem, p), 2, Size(p))
        /\ (last'.op = "Pop" /\ PopQ) =>
              IF Size(q) = 0
              THEN last'.ret = <<>> /\ Size(q') = 0
              ELSE /\ last'.ret = PartText(View(mem, q)[Size(q)])
                   /\ Size(q') = Size(q) - 1
                   /\ View(mem', q') = SubSeq(View(mem, q), 1, Size(q) - 1)
        /\ (last'.op = "PopFront" /\ PopFrontQ) =>
              IF Size(q) = 0
              THEN last'.ret = <<>> /\ Size(q') = 0
              ELSE /\ last'.ret = PartText(View(mem, q)[1])
                   /\ Size(q') = Size(q) - 1
                   /\ View(mem', q') = SubSeq(View(mem, q), 2, Size(q)) ]_vars

\* PopFront on [X, Y, X], with no copy around, returned X and left [Y, X]
C11_Witness ==
    /\ q = NilPath
    /\ last.op = "PopFront"
    /\ last.ret = <<"X">>
    /\ View(mem, p) = <<FieldPart(<<"Y">>), FieldPart(<<"X">>)>>

\* a read-only operation on p
ReadStep ==
    \/ \E index \in -1..MaxPathLen : DoAt(index)
    \/ DoFront
    \/ DoBack
    \/ \E index \in -1..MaxPathLen : DoCopyAt(index)

\* C12: At, Front, Back and CopyAt are total and read-only: with an index
\* out of range (negative included) or an empty Path they return the zero
\* value (nil for CopyAt) and do not fault; At with an index in range
\* returns the segment at that position, Front the first and Back the last;
\* none of them changes the Path's size or segments.
C12_ReadOnly ==
    [][ /\ \A index \in -1..MaxPathLen :
              /\ DoAt(index) =>
                    last'.ret = IF 0 <= index /\ index < Size(p)
                                THEN PartText(View(mem, p)[index + 1])
                                ELSE <<>>
              /\ DoCopyAt(index) =>
                    (q' = NilPath) = ~(0 <= index /\ index < Size(p))
        /\ DoFront =>
              last'.ret = IF Size(p) = 0 THEN <<>> ELSE PartText(View(mem, p)[1])
        /\ DoBack =>
              last'.ret = IF Size(p) = 0 THEN <<>>
                          ELSE PartText(View(mem, p)[Size(p)])
        /\ ReadStep => /\ Size(p') = Size(p)
                       /\ View(mem', p') = View(mem, p) ]_vars

\* At(1) on [X, Y] returned Y
C12_Witness ==
    /\ last.op = "At"
    /\ last.ret = <<"Y">>
    /\ View(mem, p) = <<FieldPart(<<"X">>), FieldPart(<<"Y">>)>>

\* C13: no Path returned by FromString begins with an Element or Key part:
\* a subject that opens with an accessor ("[0]", "[0].A") fails with
\* ErrInvalidPath, and when an accessor follows an identifier the returned
\* Path has that identifier's Field part before the accessor's part.
C13_NoLeadingAccessor ==
    LET first == IndexAny(subject, {"[", "."})
    IN  /\ (pc = "done" /\ Len(ret.path) > 0) =>
              ret.path[1].partType = partTypeField
        /\ (first = 0 /\ CharAt(subject, 0) = "[" /\ Returned) =>
              /\ pc = "err"
              /\ ret = ReturnInvalid
        /\ (first > 0 /\ CharAt(subject, first) = "[" /\ pc = "done") =>
              /\ Len(ret.path) >= 2
              /\ ret.path[1] = FieldPart(Slice(subject, 0, first))
              /\ ret.path[2].partType \in {partTypeElement, partTypeKey}

\* the names of the Field parts of ps, in order
FieldTexts(ps) ==
    PartTexts(SelectSeq(ps, LAMBDA part : part.partType = partTypeField))

\* C14: String renders only the names of the Field parts, joined by ".";
\* Element and Key parts contribute nothing.  For
\* [Field(A), Element(0), Field(B)] the result is "A.B".
C14_StringFieldsOnly ==
    last.op = "String" =>
        /\ last.ret = Join(FieldTexts(ret.path), ".")
        /\ String(<<FieldPart(<<"A">>), ElementPart(0), FieldPart(<<"B">>)>>)
              = <<"A", ".", "B">>

\* C15: PushBack on any Path, the empty one included, leaves it one segment
\* larger, with Back returning the pushed segment and every earlier segment
\* unchanged at its position.
C15_PushBack ==
    [][ \A name \in PushNames :
          /\ (last'.op = "PushBack" /\ PushBackP(name)) =>
                /\ Size(p') = Size(p) + 1
                /\ Back(mem', p') = name
                /\ View(mem', p') = Append(View(mem, p), FieldPart(name))
          /\ (last'.op = "PushBack" /\ PushBackQ(name)) =>
                /\ Size(q') = Size(q) + 1
                /\ Back(mem', q') = name
                /\ View(mem', q') = Append(View(mem, q), FieldPart(name)) ]_vars

\* PushBack(Y) on [X], with no copy around, left [X, Y]
C15_Witness ==
    /\ q = NilPath
    /\ last.op = "PushBack"
    /\ Size(p) = 2
    /\ Back(mem, p) = <<"Y">>
    /\ View(mem, p) = <<FieldPart(<<"X">>), FieldPart(<<"Y">>)>>

\* C16: FromString terminates on every subject, subjects with both a
\* bracket and a "." included, because every iteration of the scan loop that
\* does not return moves the cursor forward.  (What an iteration does is
\* decided by subject, cursor and leftBracketPos, and leftBracketPos never
\* changes: an iteration that neither returns nor moves the cursor is
\* repeated for ever.)
C16_Terminates ==
    [][ (pc = "scan" /\ pc' = "scan") => cursor' > cursor ]_vars

\* C17: in every iteration of the scan loop, at every cursor and not only
\* at 0, the character dispatched on is the first "[" or "." of the subject
\* at or after the cursor: the offset found in subject[cursor:] is taken
\* from the cursor.
C17_SpecialAtCursor ==
    (pc = "scan" /\ idxSpecialAt(subject, cursor) >= 0) =>
        /\ specialAt(subject, cursor)
              = CharAt(subject, cursor + idxSpecialAt(subject, cursor))
        /\ specialAt(subject, cursor) \in {"[", "."}

\* what PopFront returns, call after call, until the slice is empty
RECURSIVE DrainFront(_, _)
DrainFront(m, sl) ==
    IF Size(sl) = 0 THEN <<>>
    ELSE <<PopFrontOf(m, sl).part>> \o DrainFront(m, PopFrontOf(m, sl).sl)

\* C18: PushBack(x) followed by Pop returns x and leaves the Path with the
\* segments it had before; after PushBack of x1..xn on an empty Path, n
\* calls of PopFront return x1..xn in that order and leave it empty (after
\* every PushBack, as many calls of PopFront as the Path has segments
\* return the earlier segments in order and then the one pushed).
C18_PushThenPop ==
    [][ \A name \in PushNames :
          (last'.op = "PushBack" /\ PushBackP(name)) =>
              /\ PopOf(mem', p').part = name
              /\ View(mem', PopOf(mem', p').sl) = View(mem, p)
              /\ DrainFront(mem', p') = Append(PartTexts(View(mem, p)), name)
              /\ Len(DrainFront(mem', p')) = Size(p') ]_vars

\* after PushBack of X and Y on the empty Path, the second PopFront
\* returned Y and left the Path empty
C18_Witness ==
    /\ q = NilPath
    /\ last.op = "PopFront"
    /\ last.ret = <<"Y">>
    /\ Size(p) = 0
    /\ mem = Fronted(<<<<"X">>, <<"Y">>>>, 2).mem
    /\ p = Fronted(<<<<"X">>, <<"Y">>>>, 2).p

\* C19: on a string that starts with a digit,
\* findElementIndexWithClosingOffset returns the value of the longest
\* leading run of digits and the offset of the "]" that directly follows
\* the run, and ErrInvalidPath when another character follows the run or
\* the string ends first; FromString then goes on after that "]", which is
\* never taken as part of a following field name.
C19_ElementIndex ==
    /\ \A k \in 0..(Len(subject) - 1) :
          CharAt(subject, k) \in Digits =>
              LET sub == Suffix(subject, k)
                  e == DigitsEnd(sub, 0)
                  found == findElementIndexWithClosingOffset(sub)
              IN  IF e < Len(sub) /\ CharAt(sub, e) = "]"
                  THEN /\ found.err = Nil
                       /\ found.idx = Atoi(Slice(sub, 0, e)).val
                       /\ found.offset = e
                  ELSE found.err = ErrInvalidPath
    /\ (pc = "scan" /\ Len(parts) > 0
           /\ parts[Len(parts)].partType = partTypeElement) =>
          /\ cursor >= 1
          /\ CharAt(subject, cursor - 1) = "]"
    /\ pc = "done" =>
          \A i \in 2..Len(ret.path) :
              (/\ ret.path[i - 1].partType = partTypeElement
               /\ ret.path[i].partType = partTypeField) =>
                  ret.path[i].fieldOrKey[1] # "]"

=============================================================================
